---- MODULE Spec2Model ----
(***************************************************************************)
(* Model of permafrost_alaska.ipynb: the forcing cells (ERA5 series, Ku    *)
(* inputs, Ku runs, 10-year averages) and the hillslope-diffusion cells.   *)
(*                                                                         *)
(* The notebook is a sequence of cells run by one kernel.  A cell runs to  *)
(* completion before another starts, and the user may run the cells in any *)
(* order and any number of times.  The cells modelled here are             *)
(*   - "create model grid and data fields"      (CreateGrid)               *)
(*   - "initialize and run model component"     (SimStart, RunOneStep,     *)
(*                                               SaveResult, SkipSave)     *)
(*   - "make a short video"                     (MakeVideo)                *)
(*                                                                         *)
(* DepthDependentDiffuser.run_one_step and imshow_grid are landlab code.   *)
(* The notebook only calls them.  run_one_step is modelled by its          *)
(* interface: it is handed the grid and may overwrite the values of the    *)
(* three node fields the notebook created for it; which values it writes   *)
(* is a nondeterministic choice.  imshow_grid renders a figure and is      *)
(* modelled as reading its arguments.                                      *)
(*                                                                         *)
(* Lengths are integers: elevations in whole model units, soil depth in    *)
(* millimetres (0.992 m = 992).                                            *)
(*                                                                         *)
(* The forcing cells are InitEra5, the collection loop (Era5CellStart,     *)
(* Era5Read, Era5Update), PrepareInputs, the Ku loop (KuCellStart, KuSetup,*)
(* KuSetTemp, KuSetAmp, KuSetSnow, KuUpdate, KuStore) and AveCell.  Era5   *)
(* and Ku are pymt components: Era5 is modelled as serving the values of   *)
(* its file step by step, Ku as answering with the record of what it was   *)
(* given.  The create-folders cell is FolderCellStart, FolderCheck and     *)
(* FolderMkdir, run on any state of the three paths.  The groups of cells  *)
(* share no name, so each group is explored with the others at rest (Spec, *)
(* ForcingSpec, FolderSpec).                                               *)
(***************************************************************************)
EXTENDS Integers, Sequences, FiniteSets, TLC

VARIABLES
    dem_grid_shape,  \* shape (rows, cols) reported by the DEM data component
    dem_data,        \* DEM elevation values, one per node
    gridMade,        \* TRUE once model_grid exists
    grid_shape,      \* model_grid.shape
    grid_spacing,    \* model_grid xy_spacing
    elevation,       \* node field "topographic__elevation"
    soil_depth,      \* node field "soil__depth"
    production,      \* node field "soil_production__rate"
    ref_data,        \* copy of the elevation taken by the simulation cell
    time,            \* loop variable of the simulation cell
    pc,              \* "idle" (no cell running), "run", "save" (inside the loop)
    files,           \* results_dir: file name -> [mtime, data]; mtime 0 = absent
    clock,           \* file-system clock, advanced by every write
    video,           \* frames appended to hillslope.mp4 by the last video cell run
    cellRuns,        \* number of cell executions started so far
    stepCount,       \* number of run_one_step calls since the grid was created
    lastWritten,     \* elevation as left by grid creation or by the latest step
    lastRead,        \* elevation as found by the latest step when it began
    \* -- the forcing cells (ERA5 series, Ku inputs, Ku runs) --
    nanYears,        \* years for which the ERA5 files hold no snow values
    comps,           \* era5, era5_2: [inited, step] per data component
    era5_df,         \* rows [temp, swe, dens, time] collected from the components
    era5_indexed,    \* TRUE once era5_df = era5_df.set_index("time") has run
    data_comp,       \* loop variable: 1 (era5) or 2 (era5_2)
    era5_i,          \* loop variable i of the inner collection loop
    input_df,        \* rows [year, temp_mean, temp_amp, snow_h]
    input_ready,     \* TRUE once the input cell has run
    active_layer,    \* year -> active_h
    active_ready,    \* TRUE once the name active_layer is bound
    decade,          \* loop variable: index into the two (start, end) pairs
    row,             \* position of iterrows() in input_data
    ku,              \* the Ku instance bound to the name ku
    ave_df,          \* per decade, the 10-year averages
    fpc,             \* position inside the forcing cells; "idle" when none runs
    \* -- the folder cell --
    cwd,             \* the three folder paths: [kind, contents] per path
    folder,          \* loop variable: position in [config_dir, results_dir, cache_dir]
    dpc,             \* position inside the folder cell; "idle" when it is not running
    outcome          \* how the latest run of the folder cell ended

hillVars == <<dem_grid_shape, dem_data, gridMade, grid_shape, grid_spacing,
              elevation, soil_depth, production, ref_data, time, pc, files,
              clock, video, cellRuns, stepCount, lastWritten, lastRead>>

forcingVars == <<nanYears, comps, era5_df, era5_indexed, data_comp, era5_i,
                 input_df, input_ready, active_layer, active_ready, decade,
                 row, ku, ave_df, fpc>>

folderVars == <<cwd, folder, dpc, outcome>>

vars == <<hillVars, forcingVars, folderVars>>

----------------------------------------------------------------------------
(* Bounds of the model *)

\* nt of the simulation cell (1000 in the notebook), scaled down
nt == 4
\* snapshot interval of the simulation cell (50 in the notebook), scaled down
SnapEvery == 2
\* cell executions per behaviour
MaxCellRuns == 4

(* Program constants *)
Spacing == 30
ActiveH == 992
\* dt = 1  # time step (year)
dt == 1

\* a diffusivity of 1e-2 m^2/yr entered in mm^2/yr
linear_diffusivity_mm == [num |-> 10000, den |-> 1]

\* linear_diffusivity = 1e-2  # m^2/yr, as the fraction num/den
linear_diffusivity == [num |-> 1, den |-> 100]

----------------------------------------------------------------------------
(* Grids and fields *)

\* the shapes (rows, cols) the DEM may have: a row and a column of two nodes
Shapes == {<<1, 2>>, <<2, 1>>}

\* the elevation values considered
ElevVals == {0, 1}

NumNodes(shape) == shape[1] * shape[2]

Fields(n, Vals) == [1..n -> Vals]

Fill(n, v) == [i \in 1..n |-> v]

NoField == << >>

\* numpy elementwise a - b: a new array
Minus(a, b) == [i \in DOMAIN a |-> a[i] - b[i]]

\* np.copy(a): a new array holding a's values
Copy(a) == [i \in DOMAIN a |-> a[i]]

----------------------------------------------------------------------------
(* Files of results_dir *)

Tags == {0} \cup {t \in 1..nt : t % SnapEvery = 0}

\* "elev_{}.png".format(t)
ElevPng(t) == <<"elev_", t, ".png">>

VideoFile == <<"hillslope", 0, ".mp4">>

\* an image in results_dir that no cell of the notebook writes
OtherPng == <<"other", 0, ".png">>

FileNames == {ElevPng(t) : t \in Tags} \cup {VideoFile, OtherPng}

NoFile == [mtime |-> 0, data |-> NoField]

\* os.listdir(results_dir)
ListDir(fs) == {f \in DOMAIN fs : fs[f].mtime > 0}

\* the test  ".png" in file
IsPng(f) == f[3] = ".png"

\* fig.savefig(path): creates or overwrites the file, stamping the current time
SaveFig(fs, f, now, data) == [fs EXCEPT ![f] = [mtime |-> now, data |-> data]]

RECURSIVE SortByMtime(_, _)
\* list.sort(key=os.path.getmtime) of the names in S
SortByMtime(fs, S) ==
    IF S = {} THEN << >>
    ELSE LET f == CHOOSE x \in S : \A y \in S : fs[x].mtime <= fs[y].mtime
         IN  <<f>> \o SortByMtime(fs, S \ {f})

----------------------------------------------------------------------------
(* Folders *)

\* config_dir, results_dir, cache_dir
Folders == <<"config_files_alaska", "results_alaska", "cache_alaska">>

\* names of files a folder may hold
Names == {"a", "b"}

\* what a path of the working directory may be: nothing, a regular file,
\* or a directory with its contents
Absent == [kind |-> "absent", contents |-> {}]

RegularFile == [kind |-> "file", contents |-> {}]

Dir(c) == [kind |-> "dir", contents |-> c]

PathStates == {Absent, RegularFile} \cup {Dir(c) : c \in SUBSET Names}

\* the folder cell has run: the three folders exist
FoldersReady ==
    /\ cwd = [k \in 1..Len(Folders) |-> Dir({})]
    /\ folder = Len(Folders)
    /\ dpc = "idle"
    /\ outcome = "done"

----------------------------------------------------------------------------
\* no forcing cell has run
ForcingIdle ==
    /\ comps = [c \in {1, 2} |-> [inited |-> FALSE, step |-> 0]]
    /\ era5_df = << >>
    /\ era5_indexed = FALSE
    /\ data_comp = 0
    /\ era5_i = 0
    /\ input_df = << >>
    /\ input_ready = FALSE
    /\ active_layer = << >>
    /\ active_ready = FALSE
    /\ decade = 0
    /\ row = 0
    /\ ku = [made |-> FALSE]
    /\ ave_df = << >>
    /\ fpc = "idle"

\* no forcing cell has run and the ERA5 files hold every value
ForcingNotStarted == nanYears = {} /\ ForcingIdle

Init ==
    /\ dem_grid_shape \in Shapes
    /\ dem_data \in Fields(NumNodes(dem_grid_shape), ElevVals)
    /\ gridMade = FALSE
    /\ grid_shape = <<0, 0>>
    /\ grid_spacing = 0
    /\ elevation = NoField
    /\ soil_depth = NoField
    /\ production = NoField
    /\ ref_data = NoField
    /\ time = 0
    /\ pc = "idle"
    /\ files = [f \in FileNames |-> NoFile]
    /\ clock = 0
    /\ video = << >>
    /\ cellRuns = 0
    /\ stepCount = 0
    /\ lastWritten = NoField
    /\ lastRead = NoField
    /\ ForcingNotStarted
    /\ FoldersReady

\* CreateGrid with the DEM shape taken as (cols, rows)
CreateGridTransposed ==
    /\ pc = "idle"
    /\ cellRuns < MaxCellRuns
    /\ cellRuns' = cellRuns + 1
    /\ gridMade' = TRUE
    /\ grid_shape' = <<dem_grid_shape[2], dem_grid_shape[1]>>
    /\ grid_spacing' = Spacing
    /\ soil_depth' = Fill(NumNodes(dem_grid_shape), ActiveH)
    /\ production' = Fill(NumNodes(dem_grid_shape), 0)
    /\ elevation' = Copy(dem_data)
    /\ clock' = clock + 1
    /\ files' = SaveFig(files, ElevPng(0), clock', elevation')
    /\ stepCount' = 0
    /\ lastWritten' = elevation'
    /\ UNCHANGED <<dem_grid_shape, dem_data, ref_data, time, pc, video, lastRead>>
    /\ UNCHANGED forcingVars
    /\ UNCHANGED folderVars

\* The cell "create a model grid ... fig.savefig(elev_0.png)"
CreateGrid ==
    /\ pc = "idle"
    /\ cellRuns < MaxCellRuns
    /\ cellRuns' = cellRuns + 1
    /\ gridMade' = TRUE
    /\ grid_shape' = dem_grid_shape
    /\ grid_spacing' = Spacing
    /\ soil_depth' = Fill(NumNodes(dem_grid_shape), ActiveH)
    /\ production' = Fill(NumNodes(dem_grid_shape), 0)
    /\ elevation' = Copy(dem_data)
    /\ clock' = clock + 1
    /\ files' = SaveFig(files, ElevPng(0), clock', elevation')
    /\ stepCount' = 0
    /\ lastWritten' = elevation'
    /\ UNCHANGED <<dem_grid_shape, dem_data, ref_data, time, pc, video, lastRead>>
    /\ UNCHANGED forcingVars
    /\ UNCHANGED folderVars

\* What DepthDependentDiffuser.run_one_step(dt) may leave in the three node
\* fields of a grid of n nodes.  Its code is landlab's; the notebook shows only
\* that it acts on the grid it was constructed with.
StepOutcomes(n) ==
    [elevation  : Fields(n, ElevVals),
     soil_depth : {Fill(n, v) : v \in {0, ActiveH}},
     production : {Fill(n, v) : v \in {0, 1}}]

\* im_data = model_grid.at_node["topographic__elevation"] - ref_data
ImData(elev, ref) == Minus(elev, ref)

\* SimStart that first restores the elevation field from the DEM
SimStartRestoresDem ==
    /\ pc = "idle"
    /\ gridMade
    /\ cellRuns < MaxCellRuns
    /\ cellRuns' = cellRuns + 1
    /\ elevation' = Copy(dem_data)
    /\ ref_data' = Copy(elevation')
    /\ time' = 1
    /\ pc' = "run"
    /\ UNCHANGED <<dem_grid_shape, dem_data, gridMade, grid_shape, grid_spacing,
                   soil_depth, production, files, clock, video,
                   stepCount, lastWritten, lastRead>>
    /\ UNCHANGED forcingVars
    /\ UNCHANGED folderVars

\* "set parameters" ... "for time in trange(1, nt + 1)": the cell up to the
\* first iteration of the loop
SimStart ==
    /\ pc = "idle"
    /\ gridMade
    /\ cellRuns < MaxCellRuns
    /\ cellRuns' = cellRuns + 1
    /\ ref_data' = Copy(elevation)
    /\ time' = 1
    /\ pc' = "run"
    /\ UNCHANGED <<dem_grid_shape, dem_data, gridMade, grid_shape, grid_spacing,
                   elevation, soil_depth, production, files, clock, video,
                   stepCount, lastWritten, lastRead>>
    /\ UNCHANGED forcingVars
    /\ UNCHANGED folderVars

\* ddiff.run_one_step(dt)
RunOneStep ==
    /\ pc = "run"
    /\ \E out \in StepOutcomes(NumNodes(grid_shape)) :
          /\ elevation' = out.elevation
          /\ soil_depth' = out.soil_depth
          /\ production' = out.production
    /\ lastRead' = elevation
    /\ lastWritten' = elevation'
    /\ stepCount' = stepCount + 1
    /\ pc' = "save"
    /\ UNCHANGED <<dem_grid_shape, dem_data, gridMade, grid_shape, grid_spacing,
                   ref_data, time, files, clock, video, cellRuns>>
    /\ UNCHANGED forcingVars
    /\ UNCHANGED folderVars

\* LoopAdvance of a loop written range(1, nt): it leaves after time = nt - 1
LoopAdvanceShort ==
    IF time < nt - 1
    THEN time' = time + 1 /\ pc' = "run"
    ELSE time' = time /\ pc' = "idle"

\* end of the loop body: next iteration, or leave the loop after time = nt
\* ("Simulation is done!"); the loop variable keeps its last value
LoopAdvance ==
    IF time < nt
    THEN time' = time + 1 /\ pc' = "run"
    ELSE time' = time /\ pc' = "idle"

\* SaveResult with im_data computed in place in the grid's elevation array
\* (im_data = elevation; im_data -= ref_data)
SaveResultInPlace ==
    /\ pc = "save"
    /\ time % SnapEvery = 0
    /\ elevation' = ImData(elevation, ref_data)
    /\ clock' = clock + 1
    /\ files' = SaveFig(files, ElevPng(time), clock', elevation')
    /\ LoopAdvance
    /\ UNCHANGED <<dem_grid_shape, dem_data, gridMade, grid_shape, grid_spacing,
                   soil_depth, production, ref_data, video, cellRuns,
                   stepCount, lastWritten, lastRead>>
    /\ UNCHANGED forcingVars
    /\ UNCHANGED folderVars

\* SaveResult naming the file after the previous snapshot time
\* ("elev_{}.png".format(time - 50))
SaveResultPreviousName ==
    /\ pc = "save"
    /\ time % SnapEvery = 0
    /\ clock' = clock + 1
    /\ files' = SaveFig(files, ElevPng(time - SnapEvery), clock',
                        ImData(elevation, ref_data))
    /\ LoopAdvance
    /\ UNCHANGED <<dem_grid_shape, dem_data, gridMade, grid_shape, grid_spacing,
                   elevation, soil_depth, production, ref_data, video, cellRuns,
                   stepCount, lastWritten, lastRead>>
    /\ UNCHANGED forcingVars
    /\ UNCHANGED folderVars

\* "if time % 50 == 0:" taken: compute im_data, plot it, save elev_{time}.png
SaveResult ==
    /\ pc = "save"
    /\ time % SnapEvery = 0
    /\ clock' = clock + 1
    /\ files' = SaveFig(files, ElevPng(time), clock', ImData(elevation, ref_data))
    /\ LoopAdvance
    /\ UNCHANGED <<dem_grid_shape, dem_data, gridMade, grid_shape, grid_spacing,
                   elevation, soil_depth, production, ref_data, video, cellRuns,
                   stepCount, lastWritten, lastRead>>
    /\ UNCHANGED forcingVars
    /\ UNCHANGED folderVars

\* "if time % 50 == 0:" not taken
SkipSave ==
    /\ pc = "save"
    /\ time % SnapEvery # 0
    /\ LoopAdvance
    /\ UNCHANGED <<dem_grid_shape, dem_data, gridMade, grid_shape, grid_spacing,
                   elevation, soil_depth, production, ref_data, files, clock,
                   video, cellRuns, stepCount, lastWritten, lastRead>>
    /\ UNCHANGED forcingVars
    /\ UNCHANGED folderVars

\* img_files: the names in results_dir containing ".png", sorted by mtime
ImgFiles(fs) == SortByMtime(fs, {f \in ListDir(fs) : IsPng(f)})

\* The cell "Make a short video": every image of img_files is appended, in
\* that order, to a new hillslope.mp4
MakeVideo ==
    /\ pc = "idle"
    /\ cellRuns < MaxCellRuns
    /\ cellRuns' = cellRuns + 1
    /\ video' = ImgFiles(files)
    /\ clock' = clock + 1
    /\ files' = SaveFig(files, VideoFile, clock', NoField)
    /\ UNCHANGED <<dem_grid_shape, dem_data, gridMade, grid_shape, grid_spacing,
                   elevation, soil_depth, production, ref_data, time, pc,
                   stepCount, lastWritten, lastRead>>
    /\ UNCHANGED forcingVars
    /\ UNCHANGED folderVars

Next ==
    \/ CreateGrid
    \/ SimStart
    \/ RunOneStep
    \/ SaveResult
    \/ SkipSave
    \/ MakeVideo

Spec == Init /\ [][Next]_vars

\* The kernel state when results_dir already existed and held an image: the
\* folder cell creates results_dir only if it is missing and never empties it.
StrayInit ==
    /\ dem_grid_shape \in Shapes
    /\ dem_data \in Fields(NumNodes(dem_grid_shape), ElevVals)
    /\ gridMade = FALSE
    /\ grid_shape = <<0, 0>>
    /\ grid_spacing = 0
    /\ elevation = NoField
    /\ soil_depth = NoField
    /\ production = NoField
    /\ ref_data = NoField
    /\ time = 0
    /\ pc = "idle"
    /\ clock = 1
    /\ files = [f \in FileNames |->
                  IF f = OtherPng THEN [mtime |-> clock, data |-> NoField]
                  ELSE NoFile]
    /\ video = << >>
    /\ cellRuns = 0
    /\ stepCount = 0
    /\ lastWritten = NoField
    /\ lastRead = NoField
    /\ ForcingNotStarted
    /\ FoldersReady

StraySpec == StrayInit /\ [][Next]_vars

\* A started simulation cell keeps running: the kernel executes the loop
\* body statement after statement (every call of the body returns).
\* Checked for one DEM (a row of two nodes rising from 0 to 1).
FairInit == Init /\ dem_grid_shape = <<1, 2>> /\ dem_data = <<0, 1>>

FairSpec ==
    /\ FairInit /\ [][Next]_vars
    /\ WF_vars(RunOneStep) /\ WF_vars(SaveResult) /\ WF_vars(SkipSave)

----------------------------------------------------------------------------
(* The forcing cells: ERA5 series, Ku inputs, Ku runs, 10-year averages *)

\* time_steps of the collection cell: 10 years of monthly data
time_steps == 12 * 10

water_dens == 1000

\* for start, end in [(1980, 1989), (2010, 2019)]
Decades == << <<1980, 1989>>, <<2010, 2019>> >>

\* years whose snow values the ERA5 files may lack
MissingCandidates == {1983, 2015}

\* A pandas/numpy float: NaN or an exact fraction num/den (den > 0).
\* Temperatures and lengths are held in thousandths (the digits round(3)
\* keeps), densities in kg/m3.
Val(n) == [nan |-> FALSE, num |-> n, den |-> 1]
NaN == [nan |-> TRUE, num |-> 0, den |-> 1]

Abs(x) == IF x < 0 THEN -x ELSE x

RECURSIVE GCD(_, _)
GCD(a, b) == IF b = 0 THEN a ELSE GCD(b, a % b)

Frac(n, d) ==
    LET g == GCD(Abs(n), d)
    IN  [nan |-> FALSE, num |-> n \div g, den |-> d \div g]

Add(a, b) ==
    IF a.nan \/ b.nan THEN NaN
    ELSE Frac(a.num * b.den + b.num * a.den, a.den * b.den)

Sub(a, b) ==
    IF a.nan \/ b.nan THEN NaN
    ELSE Frac(a.num * b.den - b.num * a.den, a.den * b.den)

\* a * k / b for an integer k
MulDiv(a, k, b) ==
    IF a.nan \/ b.nan THEN NaN
    ELSE Frac(a.num * k * b.den, a.den * b.num)

DivInt(a, n) == IF a.nan THEN NaN ELSE Frac(a.num, a.den * n)

Less(a, b) == a.num * b.den < b.num * a.den

\* round(3): to the nearest thousandth, ties to even; NaN stays NaN
Round3(a) ==
    IF a.nan THEN NaN
    ELSE LET q == a.num \div a.den
             r == a.num % a.den
         IN  IF 2 * r < a.den THEN Val(q)
             ELSE IF 2 * r > a.den THEN Val(q + 1)
             ELSE IF q % 2 = 0 THEN Val(q) ELSE Val(q + 1)

Valid(s) == SelectSeq(s, LAMBDA x : ~x.nan)

RECURSIVE Sum(_)
Sum(s) == IF s = << >> THEN Val(0) ELSE Add(Head(s), Sum(Tail(s)))

RECURSIVE MaxOf(_)
MaxOf(s) ==
    IF Len(s) = 1 THEN Head(s)
    ELSE LET m == MaxOf(Tail(s))
         IN  IF Less(m, Head(s)) THEN Head(s) ELSE m

\* Series.mean() and Series.max(): NaN entries are skipped, and a group with
\* no entry left gives NaN
Mean(s) ==
    LET v == Valid(s)
    IN  IF v = << >> THEN NaN ELSE DivInt(Sum(v), Len(v))

ColMax(s) ==
    LET v == Valid(s)
    IN  IF v = << >> THEN NaN ELSE MaxOf(v)

Column(rows, f) == [k \in 1..Len(rows) |-> rows[k][f]]

\* -- what the two Era5 components serve ------------------------------------

\* era5_1980_config.yaml, era5_2010_config.yaml
StartYear(c) == IF c = 1 THEN 1980 ELSE 2010

\* data_comp.time at a time step, in months since January 1900
CompTime(c, step) == (StartYear(c) - 1900) * 12 + step

\* cftime.num2pydate(data_comp.time, data_comp.time_units)
Num2Pydate(t) == [year |-> 1900 + t \div 12, month |-> (t % 12) + 1]

SeasonTemp ==
    <<-20000, -17000, -10000, -2000, 6000, 12000,
      14000, 11000, 5000, -3000, -12000, -18000>>

SeasonSwe == <<60, 70, 80, 60, 20, 0, 0, 0, 5, 20, 40, 50>>

\* the values of the files at a time step: a seasonal cycle on a trend
FileTemp(c, step) ==
    Val(270150 + 1500 * (c - 1) + 300 * (step \div 12)
        + SeasonTemp[(step % 12) + 1])

FileSwe(c, step) ==
    IF Num2Pydate(CompTime(c, step)).year \in nanYears THEN NaN
    ELSE Val(SeasonSwe[(step % 12) + 1] + 2 * (step \div 12))

FileDens(c, step) ==
    Val(IF (step % 12) + 1 \in {12, 1, 2, 3} THEN 250 ELSE 200)

\* the row the collection loop builds from component c at a time step
Era5Row(c, step) ==
    [temp |-> FileTemp(c, step), swe |-> FileSwe(c, step),
     dens |-> FileDens(c, step), time |-> Num2Pydate(CompTime(c, step))]

\* -- cell: initialize ERA5 data components ---------------------------------
InitEra5 ==
    /\ fpc = "idle"
    /\ comps' = [c \in {1, 2} |-> [inited |-> TRUE, step |-> 0]]
    /\ UNCHANGED <<nanYears, era5_df, era5_indexed, data_comp, era5_i,
                   input_df, input_ready, active_layer, active_ready,
                   decade, row, ku, ave_df, fpc>>
    /\ UNCHANGED hillVars
    /\ UNCHANGED folderVars

\* -- cell: collect the time series -----------------------------------------
\* The cell is run on freshly initialized components; what a component
\* serves past the end of its file is the library's.
Era5CellStart ==
    /\ fpc = "idle"
    /\ \A c \in {1, 2} : comps[c].inited /\ comps[c].step = 0
    /\ era5_df' = << >>
    /\ era5_indexed' = FALSE
    /\ data_comp' = 1
    /\ era5_i' = 0
    /\ fpc' = "read"
    /\ UNCHANGED <<nanYears, comps, input_df, input_ready, active_layer,
                   active_ready, decade, row, ku, ave_df>>
    /\ UNCHANGED hillVars
    /\ UNCHANGED folderVars

\* get values, convert the time, add the new row
Era5ReadFirstComponent ==
    /\ fpc = "read"
    /\ era5_df' = Append(era5_df, Era5Row(1, comps[1].step))
    /\ fpc' = "update"
    /\ UNCHANGED <<nanYears, comps, era5_indexed, data_comp, era5_i,
                   input_df, input_ready, active_layer, active_ready,
                   decade, row, ku, ave_df>>
    /\ UNCHANGED hillVars
    /\ UNCHANGED folderVars

Era5Read ==
    /\ fpc = "read"
    /\ era5_df' = Append(era5_df, Era5Row(data_comp, comps[data_comp].step))
    /\ fpc' = "update"
    /\ UNCHANGED <<nanYears, comps, era5_indexed, data_comp, era5_i,
                   input_df, input_ready, active_layer, active_ready,
                   decade, row, ku, ave_df>>
    /\ UNCHANGED hillVars
    /\ UNCHANGED folderVars

\* data_comp.update(), then the next iteration; after the last one,
\* era5_df = era5_df.set_index("time")
Era5Update ==
    /\ fpc = "update"
    /\ comps' = [comps EXCEPT ![data_comp].step = @ + 1]
    /\ IF era5_i + 1 < time_steps
       THEN /\ era5_i' = era5_i + 1
            /\ fpc' = "read"
            /\ UNCHANGED <<data_comp, era5_indexed>>
       ELSE IF data_comp < 2
       THEN /\ data_comp' = data_comp + 1
            /\ era5_i' = 0
            /\ fpc' = "read"
            /\ UNCHANGED era5_indexed
       ELSE /\ era5_indexed' = TRUE
            /\ fpc' = "idle"
            /\ UNCHANGED <<data_comp, era5_i>>
    /\ UNCHANGED <<nanYears, era5_df, input_df, input_ready, active_layer,
                   active_ready, decade, row, ku, ave_df>>
    /\ UNCHANGED hillVars
    /\ UNCHANGED folderVars

\* -- cell: prepare the inputs ----------------------------------------------
\* rows of a frame that fall in the bin of year y of pd.Grouper(freq="Y")
RowsOfYear(df, y) == SelectSeq(df, LAMBDA r : r.time.year = y)

\* snow_df: swe * water_dens / dens, without the summer months
SnowRows(df) ==
    LET kept == SelectSeq(df, LAMBDA r : r.time.month <= 5 \/ r.time.month >= 9)
    IN  [k \in 1..Len(kept) |->
            [snow |-> MulDiv(kept[k].swe, water_dens, kept[k].dens),
             time |-> kept[k].time]]

\* one row per yearly bin between the first and the last time stamp
YearlyRow(df, y) ==
    LET temps == Column(RowsOfYear(df, y), "temp")
        snows == Column(RowsOfYear(SnowRows(df), y), "snow")
    IN  [year      |-> y,
         temp_mean |-> Round3(Sub(Mean(temps), Val(273150))),
         temp_amp  |-> Round3(Sub(ColMax(temps), Mean(temps))),
         snow_h    |-> Round3(Mean(snows))]

\* dropna(): rows with a NaN in any column are left out
DropNa(df) ==
    SelectSeq(df, LAMBDA r : ~r.temp_mean.nan /\ ~r.temp_amp.nan /\ ~r.snow_h.nan)

InputFrame(df) ==
    LET first == df[1].time.year
        last  == df[Len(df)].time.year
    IN  DropNa([k \in 1..(last - first + 1) |-> YearlyRow(df, first + k - 1)])

PrepareInputs ==
    /\ fpc = "idle"
    /\ era5_indexed
    /\ input_df' = InputFrame(era5_df)
    /\ input_ready' = TRUE
    /\ UNCHANGED <<nanYears, comps, era5_df, era5_indexed, data_comp, era5_i,
                   active_layer, active_ready, decade, row, ku, ave_df, fpc>>
    /\ UNCHANGED hillVars
    /\ UNCHANGED folderVars

\* -- cell: run the Ku model ------------------------------------------------
YearsOf(df) == {df[k].year : k \in 1..Len(df)}

InDecade(y, d) == y >= Decades[d][1] /\ y <= Decades[d][2]

\* input_data of the decade loop
InputData(d) == SelectSeq(input_df, LAMBDA r : InDecade(r.year, d))

\* What a Ku instance answers for soil__active_layer_thickness after an
\* update: the solver is the library's, so the answer is kept as the record
\* of everything the instance was given.
ActiveLayerOf(k) ==
    [nan |-> k.temp.nan \/ k.amp.nan \/ k.snow.nan,
     temp |-> k.temp.num, amp |-> k.amp.num, snow |-> k.snow.num,
     step |-> k.updates, start |-> k.start]

NoResult == [nan |-> TRUE, temp |-> 0, amp |-> 0, snow |-> 0,
             step |-> 0, start |-> 0]

\* active_layer = pd.DataFrame(columns=["active_h"], index=input_df.index)
KuCellStart ==
    /\ fpc = "idle"
    /\ input_ready
    /\ active_layer' = [y \in YearsOf(input_df) |-> NoResult]
    /\ active_ready' = TRUE
    /\ decade' = 1
    /\ fpc' = "setup"
    /\ UNCHANGED <<nanYears, comps, era5_df, era5_indexed, data_comp, era5_i,
                   input_df, input_ready, row, ku, ave_df>>
    /\ UNCHANGED hillVars
    /\ UNCHANGED folderVars

\* where the decade loop goes once the rows of a decade are used up
NextDecade ==
    IF decade < Len(Decades)
    THEN decade' = decade + 1 /\ fpc' = "setup"
    ELSE decade' = decade /\ fpc' = "idle"

\* ku = Ku(); args = ku.setup(...); ku.initialize(*args); first iterrows()
KuSetup ==
    /\ fpc = "setup"
    /\ ku' = [made |-> TRUE, start |-> Decades[decade][1],
              end |-> Decades[decade][2], temp |-> NaN, amp |-> NaN,
              snow |-> NaN, updates |-> 0, alt |-> NoResult]
    /\ IF Len(InputData(decade)) > 0
       THEN row' = 1 /\ fpc' = "set_temp" /\ decade' = decade
       ELSE row' = row /\ NextDecade
    /\ UNCHANGED <<nanYears, comps, era5_df, era5_indexed, data_comp, era5_i,
                   input_df, input_ready, active_layer, active_ready, ave_df>>
    /\ UNCHANGED hillVars
    /\ UNCHANGED folderVars

KuSetTemp ==
    /\ fpc = "set_temp"
    /\ ku' = [ku EXCEPT !.temp = InputData(decade)[row].temp_mean]
    /\ fpc' = "set_amp"
    /\ UNCHANGED <<nanYears, comps, era5_df, era5_indexed, data_comp, era5_i,
                   input_df, input_ready, active_layer, active_ready,
                   decade, row, ave_df>>
    /\ UNCHANGED hillVars
    /\ UNCHANGED folderVars

KuSetAmp ==
    /\ fpc = "set_amp"
    /\ ku' = [ku EXCEPT !.amp = InputData(decade)[row].temp_amp]
    /\ fpc' = "set_snow"
    /\ UNCHANGED <<nanYears, comps, era5_df, era5_indexed, data_comp, era5_i,
                   input_df, input_ready, active_layer, active_ready,
                   decade, row, ave_df>>
    /\ UNCHANGED hillVars
    /\ UNCHANGED folderVars

KuSetSnowFromAmp ==
    /\ fpc = "set_snow"
    /\ ku' = [ku EXCEPT !.snow = InputData(decade)[row].temp_amp]
    /\ fpc' = "ku_update"
    /\ UNCHANGED <<nanYears, comps, era5_df, era5_indexed, data_comp, era5_i,
                   input_df, input_ready, active_layer, active_ready,
                   decade, row, ave_df>>
    /\ UNCHANGED hillVars
    /\ UNCHANGED folderVars

KuSetSnow ==
    /\ fpc = "set_snow"
    /\ ku' = [ku EXCEPT !.snow = InputData(decade)[row].snow_h]
    /\ fpc' = "ku_update"
    /\ UNCHANGED <<nanYears, comps, era5_df, era5_indexed, data_comp, era5_i,
                   input_df, input_ready, active_layer, active_ready,
                   decade, row, ave_df>>
    /\ UNCHANGED hillVars
    /\ UNCHANGED folderVars

\* ku.update()
KuUpdate ==
    /\ fpc = "ku_update"
    /\ LET after == [ku EXCEPT !.updates = @ + 1]
       IN  ku' = [after EXCEPT !.alt = ActiveLayerOf(after)]
    /\ fpc' = "store"
    /\ UNCHANGED <<nanYears, comps, era5_df, era5_indexed, data_comp, era5_i,
                   input_df, input_ready, active_layer, active_ready,
                   decade, row, ave_df>>
    /\ UNCHANGED hillVars
    /\ UNCHANGED folderVars

\* active_layer.loc[index] = ku.get_value(...)[0], then the next row
KuStoreConsumesRow ==
    /\ fpc = "store"
    /\ active_layer' =
          [active_layer EXCEPT ![InputData(decade)[row].year] = ku.alt]
    /\ input_df' = SelectSeq(input_df,
                       LAMBDA r : r.year # InputData(decade)[row].year)
    /\ IF row < Len(InputData(decade))
       THEN row' = row /\ fpc' = "set_temp" /\ decade' = decade
       ELSE row' = row /\ NextDecade
    /\ UNCHANGED <<nanYears, comps, era5_df, era5_indexed, data_comp, era5_i,
                   input_ready, active_ready, ku, ave_df>>
    /\ UNCHANGED hillVars
    /\ UNCHANGED folderVars

KuStore ==
    /\ fpc = "store"
    /\ active_layer' =
          [active_layer EXCEPT ![InputData(decade)[row].year] = ku.alt]
    /\ IF row < Len(InputData(decade))
       THEN row' = row + 1 /\ fpc' = "set_temp" /\ decade' = decade
       ELSE row' = row /\ NextDecade
    /\ UNCHANGED <<nanYears, comps, era5_df, era5_indexed, data_comp, era5_i,
                   input_df, input_ready, active_ready, ku, ave_df>>
    /\ UNCHANGED hillVars
    /\ UNCHANGED folderVars

\* -- cell: 10-year averages ------------------------------------------------
\* the stored results of a decade, in index order, NaN entries skipped
ResultsOf(d) ==
    LET rows == InputData(d)
    IN  SelectSeq([k \in 1..Len(rows) |-> active_layer[rows[k].year]],
                  LAMBDA x : ~x.nan)

AveCell ==
    /\ fpc = "idle"
    /\ input_ready
    /\ active_ready
    /\ ave_df' = [d \in 1..Len(Decades) |->
                    [start     |-> Decades[d][1],
                     temp_mean |-> Mean(Column(InputData(d), "temp_mean")),
                     temp_amp  |-> Mean(Column(InputData(d), "temp_amp")),
                     snow_h    |-> Mean(Column(InputData(d), "snow_h")),
                     active_h  |-> ResultsOf(d)]]
    /\ UNCHANGED <<nanYears, comps, era5_df, era5_indexed, data_comp, era5_i,
                   input_df, input_ready, active_layer, active_ready,
                   decade, row, ku, fpc>>
    /\ UNCHANGED hillVars
    /\ UNCHANGED folderVars

ForcingNext ==
    \/ InitEra5
    \/ Era5CellStart
    \/ Era5Read
    \/ Era5Update
    \/ PrepareInputs
    \/ KuCellStart
    \/ KuSetup
    \/ KuSetTemp
    \/ KuSetAmp
    \/ KuSetSnow
    \/ KuUpdate
    \/ KuStore
    \/ AveCell

\* The forcing cells on their own: the hillslope cells are not run, and the
\* ERA5 files may lack the snow values of some years.
ForcingInit ==
    /\ dem_grid_shape = <<1, 2>>
    /\ dem_data = <<0, 1>>
    /\ gridMade = FALSE
    /\ grid_shape = <<0, 0>>
    /\ grid_spacing = 0
    /\ elevation = NoField
    /\ soil_depth = NoField
    /\ production = NoField
    /\ ref_data = NoField
    /\ time = 0
    /\ pc = "idle"
    /\ files = [f \in FileNames |-> NoFile]
    /\ clock = 0
    /\ video = << >>
    /\ cellRuns = 0
    /\ stepCount = 0
    /\ lastWritten = NoField
    /\ lastRead = NoField
    /\ nanYears \in SUBSET MissingCandidates
    /\ ForcingIdle
    /\ FoldersReady

ForcingSpec == ForcingInit /\ [][ForcingNext]_vars

----------------------------------------------------------------------------
(* The folder cell *)

\* os.path.isdir(folder)
IsDir(fsys, k) == fsys[k].kind = "dir"

\* os.mkdir(folder): a new empty directory; FileExistsError when the path
\* exists already
MkdirRaises(fsys, k) == fsys[k].kind # "absent"

Mkdir(fsys, k) == [fsys EXCEPT ![k] = Dir({})]

\* "for folder in [config_dir, results_dir, cache_dir]:" entered
FolderCellStart ==
    /\ dpc = "idle"
    /\ folder' = 1
    /\ dpc' = "check"
    /\ outcome' = "running"
    /\ UNCHANGED cwd
    /\ UNCHANGED <<hillVars, forcingVars>>

\* the next folder of the list, or the end of the cell
NextFolder ==
    IF folder < Len(Folders)
    THEN folder' = folder + 1 /\ dpc' = "check" /\ outcome' = outcome
    ELSE folder' = folder /\ dpc' = "idle" /\ outcome' = "done"

\* FolderCheck with the test written "if os.path.isdir(folder):"
FolderCheckInverted ==
    /\ dpc = "check"
    /\ IF ~IsDir(cwd, folder)
       THEN NextFolder
       ELSE folder' = folder /\ dpc' = "mkdir" /\ outcome' = outcome
    /\ UNCHANGED cwd
    /\ UNCHANGED <<hillVars, forcingVars>>

\* "if not os.path.isdir(folder):"
FolderCheck ==
    /\ dpc = "check"
    /\ IF IsDir(cwd, folder)
       THEN NextFolder
       ELSE folder' = folder /\ dpc' = "mkdir" /\ outcome' = outcome
    /\ UNCHANGED cwd
    /\ UNCHANGED <<hillVars, forcingVars>>

\* os.mkdir(folder); print(folder).  A raise ends the cell.
FolderMkdir ==
    /\ dpc = "mkdir"
    /\ IF MkdirRaises(cwd, folder)
       THEN /\ cwd' = cwd
            /\ folder' = folder
            /\ dpc' = "idle"
            /\ outcome' = "raised"
       ELSE /\ cwd' = Mkdir(cwd, folder)
            /\ NextFolder
    /\ UNCHANGED <<hillVars, forcingVars>>

\* between two runs of the cell, a file is put into a folder that exists
\* (a configuration file, a cached download, a saved figure)
AddFile ==
    /\ dpc = "idle"
    /\ \E k \in 1..Len(Folders), n \in Names :
          /\ cwd[k].kind = "dir"
          /\ n \notin cwd[k].contents
          /\ cwd' = [cwd EXCEPT ![k].contents = @ \cup {n}]
    /\ UNCHANGED <<folder, dpc, outcome>>
    /\ UNCHANGED <<hillVars, forcingVars>>

FolderNext ==
    \/ FolderCellStart
    \/ FolderCheck
    \/ FolderMkdir
    \/ AddFile

\* The folder cell on its own, from any state of the three paths; the other
\* cells are not run.
FolderInit ==
    /\ dem_grid_shape = <<1, 2>>
    /\ dem_data = <<0, 1>>
    /\ gridMade = FALSE
    /\ grid_shape = <<0, 0>>
    /\ grid_spacing = 0
    /\ elevation = NoField
    /\ soil_depth = NoField
    /\ production = NoField
    /\ ref_data = NoField
    /\ time = 0
    /\ pc = "idle"
    /\ files = [f \in FileNames |-> NoFile]
    /\ clock = 0
    /\ video = << >>
    /\ cellRuns = 0
    /\ stepCount = 0
    /\ lastWritten = NoField
    /\ lastRead = NoField
    /\ ForcingNotStarted
    /\ cwd \in [1..Len(Folders) -> PathStates]
    /\ folder = 0
    /\ dpc = "idle"
    /\ outcome = "never"

FolderSpec == FolderInit /\ [][FolderNext]_vars

----------------------------------------------------------------------------
(* Properties *)

\* elapsed simulated time a snapshot file name carries
ElapsedOf(f) == f[2]

InSnapshotBranch == pc = "save" /\ time % SnapEvery = 0

\* C6: the frames of the video are in increasing order of elapsed simulated
\* time (elev_0 first, then the snapshots by step), whatever cells were run,
\* and re-run, before the video cell.
C6_VideoInElapsedOrder ==
    \A i, j \in 1..Len(video) :
        i < j => ElapsedOf(video[i]) < ElapsedOf(video[j])

\* C7: the snapshot branch leaves the three node fields of the live grid as
\* they were, and a snapshot file, once written, is changed neither by a
\* later run_one_step nor by a later snapshot of another elapsed time.
C7_SnapshotLeavesGrid ==
    [][ /\ InSnapshotBranch =>
              /\ elevation' = elevation
              /\ soil_depth' = soil_depth
              /\ production' = production
        /\ pc = "run" => files' = files
        /\ pc = "save" =>
              \A f \in FileNames : f # ElevPng(time) => files'[f] = files[f]
      ]_vars

\* a snapshot of this run exists and a later step has moved the elevation
\* away from what the snapshot recorded
C7_Witness ==
    /\ cellRuns = 2
    /\ pc = "save"
    /\ time > SnapEvery
    /\ files[ElevPng(SnapEvery)].mtime > 0
    /\ files[ElevPng(SnapEvery)].data # ImData(elevation, ref_data)

\* C8: the elevation field a step finds is the field the previous step left,
\* and for the first step after grid creation it is the copy of the DEM:
\* nothing but a step writes the elevation field between two steps.
C8_StepReadsPreviousResult ==
    /\ gridMade => elevation = lastWritten
    /\ (gridMade /\ stepCount = 0) => elevation = dem_data

\* a second step is about to run on a field the first step changed, after
\* a snapshot has been taken in between
C8_Witness ==
    /\ pc = "run"
    /\ stepCount >= SnapEvery
    /\ elevation # dem_data
    /\ files[ElevPng(SnapEvery)].mtime > 0
    /\ \E i \in DOMAIN ref_data : ref_data[i] # 0

\* C10: once the grid is constructed its shape is the DEM grid shape and its
\* spacing is 30, in every later state, and every node field has one value
\* per node of that shape.
C10_ShapeAndSpacingFixed ==
    gridMade =>
        /\ grid_shape = dem_grid_shape
        /\ grid_spacing = Spacing
        /\ DOMAIN elevation = 1..NumNodes(grid_shape)
        /\ DOMAIN soil_depth = 1..NumNodes(grid_shape)
        /\ DOMAIN production = 1..NumNodes(grid_shape)

\* the grid has gone through steps and a snapshot
C10_Witness ==
    /\ gridMade
    /\ stepCount > SnapEvery
    /\ files[ElevPng(SnapEvery)].mtime > 0
    /\ elevation # dem_data

\* state of the run of the simulation cell, read off the kernel state: the
\* loop variable is 0 until the cell has run, and the loop is left at "idle"
RunState ==
    IF pc # "idle" THEN "running"
    ELSE IF time = 0 THEN "uninitialized" ELSE "finished"

\* C11: a run never returns to "uninitialized"; while it runs the loop
\* variable takes the values 1, 2, ..., nt in this order without gaps, with
\* exactly one run_one_step per value (nt steps per run), and a run that has
\* started eventually is finished with the loop variable at nt.
C11_RunLifecycle ==
    /\ [](/\ pc = "run"  => (time \in 1..nt /\ stepCount % nt = time - 1)
          /\ pc = "save" => (time \in 1..nt /\ stepCount % nt = time % nt)
          /\ pc = "idle" => (time \in {0, nt} /\ stepCount % nt = 0))
    /\ [][ /\ RunState # "uninitialized" => RunState' # "uninitialized"
           /\ RunState = "running" => RunState' \in {"running", "finished"}
           /\ time' # time =>
                 \/ time' = time + 1 /\ RunState = "running"
                 \/ time' = 1 /\ RunState # "running" /\ RunState' = "running"
         ]_vars
    /\ (RunState = "running") ~> (RunState = "finished" /\ time = nt)

\* a first run has finished after exactly nt steps
C11_Witness ==
    /\ RunState = "finished"
    /\ cellRuns = 2
    /\ time = nt
    /\ stepCount = nt

\* elapsed times at which the loop writes a snapshot
SnapTags == Tags \ {0}

\* snapshot times the current (or last) run of the simulation cell has passed
PassedTags == {t \in SnapTags : t < time \/ (pc = "idle" /\ t <= time)}

\* the snapshot images present in results_dir
SnapshotFiles == {f \in ListDir(files) : f[1] = "elev_" /\ ElapsedOf(f) > 0}

\* C13: at step t the loop writes elev_<t>.png if and only if t mod SnapEvery
\* = 0 and writes no other file; the snapshots of the steps passed are the
\* latest writes, in step order, all later than elev_0.png while the run
\* lasts; a finished run leaves nt div SnapEvery snapshots, the one of the
\* final step included when SnapEvery divides nt.
C13_SnapshotSchedule ==
    /\ [](/\ \A t \in PassedTags :
                /\ files[ElevPng(t)].mtime > 0
                /\ pc # "idle" => files[ElevPng(t)].mtime > files[ElevPng(0)].mtime
                /\ \A u \in SnapTags \ PassedTags :
                      files[ElevPng(t)].mtime > files[ElevPng(u)].mtime
                /\ \A u \in PassedTags :
                      t < u => files[ElevPng(t)].mtime < files[ElevPng(u)].mtime
          /\ RunState = "finished" =>
                /\ Cardinality(SnapshotFiles) = nt \div SnapEvery
                /\ nt % SnapEvery = 0 => ElevPng(nt) \in SnapshotFiles)
    /\ [][ pc = "save" =>
              IF time % SnapEvery = 0
              THEN /\ files'[ElevPng(time)].mtime = clock'
                   /\ clock' > clock
                   /\ \A f \in FileNames :
                         f # ElevPng(time) => files'[f] = files[f]
              ELSE files' = files
         ]_vars

\* a first run has finished and left every snapshot, the last one at nt or
\* at the last multiple of SnapEvery below it
C13_Witness ==
    /\ RunState = "finished"
    /\ cellRuns = 2
    /\ Cardinality(SnapshotFiles) = Cardinality(SnapTags)
    /\ \A t \in SnapTags : files[ElevPng(t)].mtime > files[ElevPng(0)].mtime

\* dt <= spacing^2 / (4 D) for D = num/den, cleared of fractions
StabilityBound(step, D, spacing) ==
    step * 4 * D.num <= spacing * spacing * D.den

\* C16: at every step of a run the time step, the diffusivity and the
\* spacing of the grid the run works on satisfy dt <= spacing^2 / (4 D), and
\* the spacing does not change while the run lasts.
C16_StabilityBoundHolds ==
    /\ [](RunState = "running" =>
             StabilityBound(dt, linear_diffusivity, grid_spacing))
    /\ [][RunState = "running" => grid_spacing' = grid_spacing]_vars

\* the last step of a run is about to be taken on the 30 m grid
C16_Witness ==
    /\ pc = "run"
    /\ time = nt
    /\ grid_spacing = Spacing

\* the video cell last ran when elev_0.png and every snapshot existed
VideoMadeAfterRun ==
    \A t \in Tags :
        /\ files[ElevPng(t)].mtime > 0
        /\ files[ElevPng(t)].mtime < files[VideoFile].mtime

\* C17: a video assembled after a complete run holds elev_0 and every
\* snapshot of the run exactly once and no other frame, whatever else is in
\* results_dir.
C17_VideoIsExactlyTheRun ==
    VideoMadeAfterRun =>
        /\ Len(video) = Cardinality(Tags)
        /\ {video[i] : i \in 1..Len(video)} = {ElevPng(t) : t \in Tags}

\* positions of the Ku cell, and those inside the loop over the year rows
KuPositions == {"setup", "set_temp", "set_amp", "set_snow", "ku_update", "store"}

RowPositions == KuPositions \ {"setup"}

\* the years the two Ku loops ask for
RequiredYears ==
    UNION {Decades[d][1]..Decades[d][2] : d \in 1..Len(Decades)}

MissingRequiredYear ==
    input_ready /\ \E y \in RequiredYears : y \notin YearsOf(input_df)

\* C12: when the forcing series lacks a required year of 1980-1989 or
\* 2010-2019 the run is fatal: the Ku loop does not go through its rows and
\* no active-layer result is stored.
C12_MissingYearIsFatal ==
    MissingRequiredYear =>
        /\ fpc \notin RowPositions
        /\ \A y \in DOMAIN active_layer : active_layer[y].nan

\* years of decade d that have a stored result
StoredIn(d) ==
    {y \in DOMAIN active_layer : InDecade(y, d) /\ ~active_layer[y].nan}

\* C18: the steps of the Ku cell and of the averaging cell leave every
\* record of input_df as it was, and inside a decade the records are
\* consumed in increasing order of their time stamp: the years already
\* stored are those of the rows before the current one, all earlier.
C18_ForcingSeriesImmutable ==
    /\ [][ (\/ fpc \in KuPositions \/ fpc' \in KuPositions
            \/ ku' # ku \/ active_layer' # active_layer \/ ave_df' # ave_df)
           => (input_df' = input_df /\ input_ready' = input_ready) ]_vars
    /\ [](fpc \in RowPositions =>
            /\ StoredIn(decade) =
                  {InputData(decade)[k].year : k \in 1..(row - 1)}
            /\ \A y \in StoredIn(decade) : y < InputData(decade)[row].year)

C18_Witness ==
    /\ fpc = "idle"
    /\ active_ready
    /\ ave_df # << >>
    /\ Len(input_df) > 0
    /\ \A y \in DOMAIN active_layer : ~active_layer[y].nan

\* what the k-th year row of decade d must give: its own three inputs, on
\* the k-th update of the instance made for that decade
ExpectedResult(d, k) ==
    LET r == InputData(d)[k]
    IN  [nan |-> FALSE, temp |-> r.temp_mean.num, amp |-> r.temp_amp.num,
         snow |-> r.snow_h.num, step |-> k, start |-> Decades[d][1]]

KuCellDone == active_ready /\ fpc \notin KuPositions

\* C19: inside the row loop the instance is the one set up and initialized
\* for the current decade; at the update of a year the three inputs held by
\* the instance are that year's and the instance has been updated once per
\* earlier row; the value stored is the one read after that update; and once
\* the cell is over every year record of the two decades has the result of
\* its own inputs.
C19_KuRunProtocol ==
    /\ fpc \in RowPositions =>
          /\ ku.made
          /\ ku.start = Decades[decade][1]
          /\ ku.end = Decades[decade][2]
          /\ ku.updates = IF fpc = "store" THEN row ELSE row - 1
    /\ fpc = "ku_update" =>
          /\ ku.temp = InputData(decade)[row].temp_mean
          /\ ku.amp = InputData(decade)[row].temp_amp
          /\ ku.snow = InputData(decade)[row].snow_h
    /\ fpc = "store" => ku.alt = ExpectedResult(decade, row)
    /\ KuCellDone =>
          \A d \in 1..Len(Decades) : \A k \in 1..Len(InputData(d)) :
              active_layer[InputData(d)[k].year] = ExpectedResult(d, k)

C19_Witness ==
    /\ KuCellDone
    /\ \A d \in 1..Len(Decades) : Len(InputData(d)) > 1
    /\ \A y \in DOMAIN active_layer : ~active_layer[y].nan

MonthsOf(t) == t.year * 12 + t.month

\* C20: in the collection loop the row just appended is the one of the
\* current component at its current time step, read before the update that
\* follows; each component gives time_steps rows and is advanced time_steps
\* times; the finished series has 2 * time_steps rows, those of the first
\* component first, in non-decreasing time order within each component.
C20_Era5Collection ==
    /\ [](/\ fpc \in {"read", "update"} =>
               /\ comps[data_comp].step = era5_i
               /\ Len(era5_df) = (data_comp - 1) * time_steps + era5_i
                                 + (IF fpc = "update" THEN 1 ELSE 0)
          /\ fpc = "update" =>
               era5_df[Len(era5_df)] = Era5Row(data_comp, era5_i)
          /\ era5_indexed =>
               /\ Len(era5_df) = 2 * time_steps
               /\ \A c \in {1, 2} : \A k \in 1..time_steps :
                     /\ era5_df[(c - 1) * time_steps + k] = Era5Row(c, k - 1)
                     /\ k > 1 =>
                          MonthsOf(era5_df[(c - 1) * time_steps + k - 1].time)
                            <= MonthsOf(era5_df[(c - 1) * time_steps + k].time))
    /\ [][ /\ fpc = "update" =>
                /\ era5_df' = era5_df
                /\ comps'[data_comp].step = era5_i + 1
           /\ (~era5_indexed /\ era5_indexed') =>
                \A c \in {1, 2} : comps'[c].step = time_steps ]_vars

C20_Witness ==
    /\ era5_indexed
    /\ fpc = "idle"
    /\ Len(era5_df) = 2 * time_steps
    /\ \A c \in {1, 2} : comps[c].step = time_steps

\* C21: ref_data, once taken, is the initial DEM elevation in every later
\* state, whatever cells were run and re-run, and the image data of a
\* snapshot is the elevation of the grid minus the initial DEM elevation,
\* node by node.
C21_RefDataIsInitialDem ==
    ref_data # NoField =>
        /\ ref_data = dem_data
        /\ InSnapshotBranch =>
              ImData(elevation, ref_data) = Minus(elevation, dem_data)

\* a step of the folder cell
FolderCellStep == dpc # "idle" \/ dpc' # "idle"

\* what a run of the cell leaves behind: every folder up to the first path
\* that is a regular file is a directory
Settled ==
    \A k \in 1..Len(Folders) :
        (\A j \in 1..k : cwd[j].kind # "file") => cwd[k].kind = "dir"

\* C22: once the cell has run to its end the three folders exist; a step of
\* the cell changes a path only from nothing to an empty folder, so that a
\* folder that existed keeps its contents; and a run on what an earlier run
\* left behind changes nothing.
C22_FolderSetupIdempotent ==
    /\ [](/\ (dpc = "idle" /\ outcome = "done") =>
               \A k \in 1..Len(Folders) : cwd[k].kind = "dir"
          /\ (dpc = "idle" /\ outcome # "never") => Settled)
    /\ [][ FolderCellStep =>
             /\ \A k \in 1..Len(Folders) :
                   cwd'[k] # cwd[k] => (cwd[k] = Absent /\ cwd'[k] = Dir({}))
             /\ Settled => cwd' = cwd ]_vars

\* the cell has run to its end: one folder is empty and another holds a file
C22_Witness ==
    /\ dpc = "idle"
    /\ outcome = "done"
    /\ \E k \in 1..Len(Folders) : cwd[k] = Dir({})
    /\ \E k \in 1..Len(Folders) : cwd[k].contents # {}

====
